---- MODULE Spec2Model ----
(***************************************************************************)
(* The koubei proxy handler of china-auto-dashboard, in its two variants:  *)
(*   strict   functions/api/koubei.js   (400 when `id` is missing or empty) *)
(*   lenient  the second onRequestGet   (default id "197")                  *)
(* Each invocation of onRequestGet is a small process: it runs up to its   *)
(* first await (the fetch), is resumed when the fetch settles, runs up to  *)
(* the second await (res.json()) and is resumed when the body is parsed.   *)
(***************************************************************************)
EXTENDS Integers, Sequences, FiniteSets, TLC

\* ------------------------------------------------------------------ bounds
MaxInv == 2
MaxIdLen == 2
MaxMembers == 2

Invocations == 1..MaxInv

\* ------------------------------------------------- query strings and ids
\* Characters an `id` value is built from: a digit and a path metacharacter.
IdChars == {"9", "/"}

RECURSIVE Strs(_)
Strs(n) == IF n = 0 THEN {""}
           ELSE Strs(n - 1) \cup {s \o c : s \in Strs(n - 1), c \in IdChars}

\* The values the `id` parameter carries (already percent-decoded, as
\* URLSearchParams hands them out): every short string over IdChars, the
\* id of the default file, and one string full of URL metacharacters.
IdValues == Strs(MaxIdLen) \cup {"197", "../x?y=1#z"}

IdParams == {[name |-> "id", value |-> v] : v \in IdValues}
OtherParam == [name |-> "lang", value |-> "zh"]

\* Query strings: no parameter, a foreign parameter only, `id` alone, `id`
\* after a foreign parameter, and `id` given twice.
Queries ==
    {<<>>, <<OtherParam>>}
    \cup {<<p>> : p \in IdParams}
    \cup {<<OtherParam, p>> : p \in IdParams}
    \cup {<<p, [name |-> "id", value |-> "197"]>> : p \in IdParams}

Null == [present |-> FALSE, value |-> ""]
Str(s) == [present |-> TRUE, value |-> s]

\* url.searchParams.get(name): the value of the first parameter of that
\* name, or null.
RECURSIVE searchParamsGet(_, _)
searchParamsGet(query, name) ==
    IF query = <<>> THEN Null
    ELSE IF Head(query).name = name THEN Str(Head(query).value)
    ELSE searchParamsGet(Tail(query), name)

\* Mutant of Falsy: id === null, which lets the empty string through.
NullOnly(v) == ~v.present

\* !id for a value that is null or a string.
Falsy(v) == ~v.present \/ v.value = ""

\* ------------------------------------------------------------ JSON texts
\* A JSON text is modelled by its syntax tree. A number literal keeps its
\* sign, its digits m and its decimal exponent e (the literal m * 10^e); an
\* object keeps its members in order, duplicate names included.
TNull == [t |-> "null"]
TBool(b) == [t |-> "bool", b |-> b]
TStr(s) == [t |-> "str", s |-> s]
TNum(neg, m, e) == [t |-> "num", neg |-> neg, m |-> m, e |-> e]
TArr(items) == [t |-> "arr", items |-> items]
TObj(members) == [t |-> "obj", members |-> members]

\* JavaScript values as JSON.parse builds them.
VNull == [t |-> "null"]
VStr(s) == [t |-> "str", s |-> s]
VNum(neg, m, e) == [t |-> "number", k |-> "finite", neg |-> neg, m |-> m, e |-> e]
VInf(neg) == [t |-> "number", k |-> "inf", neg |-> neg, m |-> 0, e |-> 0]
VArr(items) == [t |-> "array", items |-> items]
VObj(props) == [t |-> "object", props |-> props]
Undefined == [t |-> "undefined"]

\* ------------------------------------------------- numbers (IEEE doubles)
\* The largest double is 1.797...e308: a literal above it reads as
\* Infinity. A literal below the smallest subnormal, 4.94e-324, reads as 0.
\* (Mantissas of the model have at most four digits, and no literal of the
\* model lies in the subnormal range, where digits are lost.)
MaxExp10 == 308
MaxLead4 == 1797
MinExp10 == 0 - 324

RECURSIVE Digits(_)
Digits(m) == IF m < 10 THEN 1 ELSE 1 + Digits(m \div 10)

RECURSIVE Pow10(_)
Pow10(n) == IF n = 0 THEN 1 ELSE 10 * Pow10(n - 1)

\* The first four significant digits of m.
Lead4(m) == IF Digits(m) <= 4 THEN m * Pow10(4 - Digits(m))
            ELSE m \div Pow10(Digits(m) - 4)

\* The exponent of m * 10^e in scientific notation.
SciExp(m, e) == e + Digits(m) - 1

Overflows(m, e) ==
    /\ m # 0
    /\ \/ SciExp(m, e) > MaxExp10
       \/ SciExp(m, e) = MaxExp10 /\ Lead4(m) > MaxLead4

Underflows(m, e) == m # 0 /\ SciExp(m, e) < MinExp10

\* m * 10^e without trailing zeros in m, so that equal numbers are equal
\* records.
RECURSIVE Normal(_, _, _)
Normal(neg, m, e) ==
    IF m = 0 THEN VNum(neg, 0, 0)
    ELSE IF m % 10 = 0 THEN Normal(neg, m \div 10, e + 1)
    ELSE VNum(neg, m, e)

\* The double a number literal denotes.
ToNumber(neg, m, e) ==
    IF Overflows(m, e) THEN VInf(neg)
    ELSE IF Underflows(m, e) THEN VNum(neg, 0, 0)
    ELSE Normal(neg, m, e)

\* ------------------------------------------------ JSON.parse / stringify
\* CreateDataProperty on the property list of an object under construction:
\* a name already present keeps its place and takes the new value.
HasKey(props, k) == \E j \in 1..Len(props) : props[j].k = k

DefineProp(props, k, v) ==
    IF HasKey(props, k)
    THEN [j \in 1..Len(props) |->
             IF props[j].k = k THEN [k |-> k, v |-> v] ELSE props[j]]
    ELSE Append(props, [k |-> k, v |-> v])

RECURSIVE JSONparse(_)
RECURSIVE ParseMembers(_, _)

\* JSON.parse of a (valid) JSON text.
JSONparse(x) ==
    CASE x.t = "num" -> ToNumber(x.neg, x.m, x.e)
      [] x.t = "arr" -> VArr([j \in 1..Len(x.items) |-> JSONparse(x.items[j])])
      [] x.t = "obj" -> VObj(ParseMembers(<<>>, x.members))
      [] OTHER -> x

ParseMembers(props, members) ==
    IF members = <<>> THEN props
    ELSE ParseMembers(
             DefineProp(props, Head(members).k, JSONparse(Head(members).v)),
             Tail(members))

\* SerializeJSONProperty: a non-finite number is written as null, -0 as 0.
RECURSIVE Serialize(_)
Serialize(v) ==
    CASE v.t = "number" ->
             IF v.k = "inf" THEN TNull
             ELSE TNum(v.neg /\ v.m # 0, v.m, v.e)
      [] v.t = "array" -> TArr([j \in 1..Len(v.items) |-> Serialize(v.items[j])])
      [] v.t = "object" ->
             TObj([j \in 1..Len(v.props) |->
                      [k |-> v.props[j].k, v |-> Serialize(v.props[j].v)]])
      [] OTHER -> v

\* A body is a text: its layout and, when it is a JSON text, its tree.
Body(fmt, doc) == [valid |-> TRUE, fmt |-> fmt, doc |-> doc]
NotJson(what) == [valid |-> FALSE, fmt |-> "raw", doc |-> [t |-> what]]
NoBody == [valid |-> FALSE, fmt |-> "none", doc |-> [t |-> "none"]]

\* JSON.stringify(value) and JSON.stringify(value, null, 2).
JSONstringify(value, space) ==
    Body(IF space = 0 THEN "compact" ELSE "indented", Serialize(value))

\* ------------------------------------------------------------- upstream
\* What the static host may answer. Values of object members and array
\* items: a string, an integer, and a number no double can hold.
MemberValues == {TStr("ok"), TNum(FALSE, 197, 0), TNum(FALSE, 1, 309)}
Members == {[k |-> k, v |-> v] : k \in {"id", "score"}, v \in MemberValues}

RECURSIVE MemberSeqs(_)
MemberSeqs(n) ==
    IF n = 0 THEN {<<>>}
    ELSE MemberSeqs(n - 1)
         \cup {Append(ms, m) : ms \in MemberSeqs(n - 1), m \in Members}

\* 0, -0, 197, 4.5, 10, the doubles around Number.MAX_VALUE, 1e309, -1e309
\* and 1e-400.
NumberTexts ==
    {TNum(FALSE, 0, 0), TNum(TRUE, 0, 0), TNum(FALSE, 197, 0),
     TNum(FALSE, 45, 0 - 1), TNum(FALSE, 10, 0), TNum(FALSE, 1797, 305),
     TNum(FALSE, 1798, 305), TNum(FALSE, 1, 309), TNum(TRUE, 1, 309),
     TNum(FALSE, 1, 0 - 400)}

JsonTexts ==
    {TNull, TBool(TRUE), TStr("ok")}
    \cup NumberTexts
    \cup {TObj(ms) : ms \in MemberSeqs(MaxMembers)}
    \cup {TArr(<<>>)} \cup {TArr(<<v>>) : v \in MemberValues}
    \cup {TArr(<<TObj(<<[k |-> "id", v |-> TNum(FALSE, 197, 0)]>>), TNull>>)}

ErrorPage == NotJson("html")
EmptyBody == NotJson("empty")
SmallJson == Body("raw", TObj(<<[k |-> "id", v |-> TNum(FALSE, 197, 0)]>>))

FailStatuses == {300, 304, 404, 500, 503}

UpResponse(status, body) == [settled |-> "fulfilled", status |-> status, body |-> body]
NetworkError == [settled |-> "rejected", status |-> 0, body |-> NoBody]
NoRes == [settled |-> "pending", status |-> 0, body |-> NoBody]

\* Every answer of the host, for the handler run on its own.
UpstreamResponses ==
    {UpResponse(200, b) : b \in {Body("raw", d) : d \in JsonTexts}
                                \cup {ErrorPage, EmptyBody}}
    \cup {UpResponse(299, b) : b \in {SmallJson, ErrorPage}}
    \cup {UpResponse(204, EmptyBody)}
    \cup {UpResponse(st, b) : st \in FailStatuses, b \in {SmallJson, ErrorPage}}

\* A few of them and a few requests, for invocations run side by side.
FewResponses ==
    {UpResponse(200, SmallJson), UpResponse(200, Body("raw", TStr("ok"))),
     UpResponse(200, ErrorPage), UpResponse(404, ErrorPage)}
FewQueries == {<<>>, <<[name |-> "id", value |-> ""]>>,
               <<[name |-> "id", value |-> "9"]>>}

\* ------------------------------------------------- the handler's pieces
\* Mutant of Ok: res.status < 400, which takes a 3xx for a success.
OkBelow400(res) == res.status >= 200 /\ res.status < 400

\* res.ok
Ok(res) == res.status >= 200 /\ res.status <= 299

\* Mutant of ResJson: a parse failure swallowed and turned into null.
ResJsonNullOnError(res) ==
    IF res.body.valid
    THEN [fulfilled |-> TRUE, value |-> JSONparse(res.body.doc)]
    ELSE [fulfilled |-> TRUE, value |-> VNull]

\* await res.json(): the body parsed, or a rejection with a SyntaxError.
ResJson(res) ==
    IF res.body.valid
    THEN [fulfilled |-> TRUE, value |-> JSONparse(res.body.doc)]
    ELSE [fulfilled |-> FALSE, value |-> Undefined]

\* Mutant of FileUrl: the id passed through encodeURIComponent.
FileUrlEncoded(id) ==
    "https://china-auto-dashboard.pages.dev/api/koubei_summary_"
        \o (CASE id = "/" -> "%2F"
              [] id = "../x?y=1#z" -> "..%2Fx%3Fy%3D1%23z"
              [] OTHER -> id)
        \o ".json"

\* `https://china-auto-dashboard.pages.dev/api/koubei_summary_${id}.json`
FileUrl(id) ==
    "https://china-auto-dashboard.pages.dev/api/koubei_summary_" \o id \o ".json"

\* Mutant of LenientId: no default, the template prints null as "null".
LenientIdNoDefault(got) == IF ~got.present THEN Str("null") ELSE got

\* Mutant of LenientId: ?? in place of ||, which keeps the empty string.
LenientIdNullish(got) == IF ~got.present THEN Str("197") ELSE got

\* url.searchParams.get("id") || "197"
LenientId(got) == IF Falsy(got) THEN Str("197") ELSE got

JsonHeaders == "application/json"

\* new Response(body, init): the status is 200 unless init gives one.
Response(body, init) ==
    [kind |-> "response",
     status |-> IF "status" \in DOMAIN init THEN init.status ELSE 200,
     body |-> body,
     contentType |-> init.headers,
     error |-> ""]

\* The promise onRequestGet returned is rejected with this error.
Rejected(err) ==
    [kind |-> "rejected", status |-> 0, body |-> NoBody, contentType |-> "",
     error |-> err]

NoOutcome ==
    [kind |-> "none", status |-> 0, body |-> NoBody, contentType |-> "",
     error |-> ""]

\* JSON.stringify({ error: msg })
ErrorEnvelope(msg) == JSONstringify(VObj(<<[k |-> "error", v |-> VStr(msg)]>>), 0)

MissingId == Response(ErrorEnvelope("missing id"), [status |-> 400, headers |-> JsonHeaders])
StrictNotFound ==
    Response(ErrorEnvelope("file not found"), [status |-> 404, headers |-> JsonHeaders])
LenientNotFound ==
    Response(ErrorEnvelope("File not found"), [status |-> 404, headers |-> JsonHeaders])
StrictSuccess(data) == Response(JSONstringify(data, 0), [headers |-> JsonHeaders])
LenientSuccess(data) == Response(JSONstringify(data, 2), [headers |-> JsonHeaders])

\* ---------------------------------------------------------------- state
\* Per invocation: where it is (pc), which file's onRequestGet it runs, its
\* request's query string, its locals id, fileUrl, res and data, what it
\* returned (outcome), the URLs it passed to fetch, and how often it called
\* res.json().
VARIABLES pc, variant, request, id, fileUrl, res, data, outcome, fetched,
          jsonCalls

vars == <<pc, variant, request, id, fileUrl, res, data, outcome, fetched,
          jsonCalls>>

\* Mutant of Local: one module-level variable in place of a const of the
\* call, so that every invocation reads what the first one stored.
Shared(f, i) == f[1]

\* A local of invocation i: each call of the function has its own consts.
Local(f, i) == f[i]

Init ==
    /\ pc = [i \in Invocations |-> "idle"]
    /\ variant = [i \in Invocations |-> "unset"]
    /\ request = [i \in Invocations |-> <<>>]
    /\ id = [i \in Invocations |-> Null]
    /\ fileUrl = [i \in Invocations |-> ""]
    /\ res = [i \in Invocations |-> NoRes]
    /\ data = [i \in Invocations |-> Undefined]
    /\ outcome = [i \in Invocations |-> NoOutcome]
    /\ fetched = [i \in Invocations |-> <<>>]
    /\ jsonCalls = [i \in Invocations |-> 0]

\* return value: the invocation is over.
Return(i, out) ==
    /\ outcome' = [outcome EXCEPT ![i] = out]
    /\ pc' = [pc EXCEPT ![i] = "done"]

\* Mutant of AwaitFetch: the fetch issued twice (a retry).
AwaitFetchTwice(i, u) ==
    /\ fileUrl' = [fileUrl EXCEPT ![i] = u]
    /\ fetched' = [fetched EXCEPT ![i] = Append(Append(@, u), u)]
    /\ pc' = [pc EXCEPT ![i] = "fetch"]
    /\ UNCHANGED outcome

\* const res = await fetch(fileUrl): the call is issued, the function
\* suspends.
AwaitFetch(i, u) ==
    /\ fileUrl' = [fileUrl EXCEPT ![i] = u]
    /\ fetched' = [fetched EXCEPT ![i] = Append(@, u)]
    /\ pc' = [pc EXCEPT ![i] = "fetch"]
    /\ UNCHANGED outcome

\* functions/api/koubei.js, from the call to the first await or return.
StrictRequest(i, q) ==
    /\ pc[i] = "idle"
    /\ variant' = [variant EXCEPT ![i] = "strict"]
    /\ request' = [request EXCEPT ![i] = q]
    /\ LET got == searchParamsGet(q, "id") IN
       /\ id' = [id EXCEPT ![i] = got]
       /\ IF Falsy(got)
          THEN Return(i, MissingId) /\ UNCHANGED <<fileUrl, fetched>>
          ELSE AwaitFetch(i, FileUrl(got.value))
    /\ UNCHANGED <<res, data, jsonCalls>>

\* The other onRequestGet, from the call to the first await.
LenientRequest(i, q) ==
    /\ pc[i] = "idle"
    /\ variant' = [variant EXCEPT ![i] = "lenient"]
    /\ request' = [request EXCEPT ![i] = q]
    /\ LET got == LenientId(searchParamsGet(q, "id")) IN
       /\ id' = [id EXCEPT ![i] = got]
       /\ AwaitFetch(i, FileUrl(got.value))
    /\ UNCHANGED <<res, data, jsonCalls>>

\* The fetch is fulfilled with response r: if (!res.ok) return the 404,
\* else call res.json() and suspend again.
FetchFulfilled(i, r, notFound) ==
    /\ pc[i] = "fetch"
    /\ res' = [res EXCEPT ![i] = r]
    /\ IF ~Ok(r)
       THEN Return(i, notFound) /\ UNCHANGED jsonCalls
       ELSE /\ jsonCalls' = [jsonCalls EXCEPT ![i] = @ + 1]
            /\ pc' = [pc EXCEPT ![i] = "json"]
            /\ UNCHANGED outcome
    /\ UNCHANGED <<variant, request, id, fileUrl, data, fetched>>

StrictFetchFulfilled(i, r) ==
    variant[i] = "strict" /\ FetchFulfilled(i, r, StrictNotFound)

LenientFetchFulfilled(i, r) ==
    variant[i] = "lenient" /\ FetchFulfilled(i, r, LenientNotFound)

\* The fetch is rejected (no connection, DNS failure): the await throws,
\* nothing catches it.
FetchRejected(i) ==
    /\ pc[i] = "fetch"
    /\ res' = [res EXCEPT ![i] = NetworkError]
    /\ Return(i, Rejected("TypeError"))
    /\ UNCHANGED <<variant, request, id, fileUrl, data, fetched, jsonCalls>>

\* res.json() settles: on a value, return it re-serialized; on a
\* SyntaxError the await throws, nothing catches it.
JsonSettled(i, parsed, out) ==
    /\ pc[i] = "json"
    /\ IF parsed.fulfilled
       THEN /\ data' = [data EXCEPT ![i] = parsed.value]
            /\ Return(i, out)
       ELSE /\ Return(i, Rejected("SyntaxError"))
            /\ UNCHANGED data
    /\ UNCHANGED <<variant, request, id, fileUrl, res, fetched, jsonCalls>>

StrictJsonSettled(i) ==
    /\ variant[i] = "strict"
    /\ LET parsed == ResJson(Local(res, i)) IN
       JsonSettled(i, parsed, StrictSuccess(parsed.value))

LenientJsonSettled(i) ==
    /\ variant[i] = "lenient"
    /\ LET parsed == ResJson(Local(res, i)) IN
       JsonSettled(i, parsed, LenientSuccess(parsed.value))

\* No invocation has been started.
NoneStarted == \A j \in Invocations : pc[j] = "idle"

\* One request, handled on its own, with every query string and every
\* upstream answer.
Next ==
    \/ \E i \in Invocations, q \in Queries : NoneStarted /\ StrictRequest(i, q)
    \/ \E i \in Invocations, q \in Queries : NoneStarted /\ LenientRequest(i, q)
    \/ \E i \in Invocations, r \in UpstreamResponses : StrictFetchFulfilled(i, r)
    \/ \E i \in Invocations, r \in UpstreamResponses : LenientFetchFulfilled(i, r)
    \/ \E i \in Invocations : FetchRejected(i)
    \/ \E i \in Invocations : StrictJsonSettled(i)
    \/ \E i \in Invocations : LenientJsonSettled(i)

Spec == Init /\ [][Next]_vars

\* Up to MaxInv requests in flight at once, resumed in any order.
NextConc ==
    \/ \E i \in Invocations, q \in FewQueries : StrictRequest(i, q)
    \/ \E i \in Invocations, q \in FewQueries : LenientRequest(i, q)
    \/ \E i \in Invocations, r \in FewResponses : StrictFetchFulfilled(i, r)
    \/ \E i \in Invocations, r \in FewResponses : LenientFetchFulfilled(i, r)
    \/ \E i \in Invocations : FetchRejected(i)
    \/ \E i \in Invocations : StrictJsonSettled(i)
    \/ \E i \in Invocations : LenientJsonSettled(i)

SpecConc == Init /\ [][NextConc]_vars

\* =============================================================== claims
\* What a request carries and what came back, read off the state without
\* the handler's own helpers.
IdOf(i) == searchParamsGet(request[i], "id")
IdAbsent(i) == ~IdOf(i).present
IdEmpty(i) == IdOf(i).present /\ IdOf(i).value = ""
Started(i) == pc[i] # "idle"
Done(i) == pc[i] = "done"
Answered(i) == res[i].settled = "fulfilled"
Is2xx(i) == res[i].status \in 200..299
Template(v) ==
    "https://china-auto-dashboard.pages.dev/api/koubei_summary_" \o v \o ".json"
Envelope(msg) == Body("compact", TObj(<<[k |-> "error", v |-> TStr(msg)]>>))
IsResponse(i, status, body) ==
    /\ outcome[i].kind = "response"
    /\ outcome[i].status = status
    /\ outcome[i].body = body
    /\ outcome[i].contentType = "application/json"

\* Deep equality of two decoded values: numbers by ===, arrays item by
\* item, objects by their properties whatever their order.
RECURSIVE StructEq(_, _)
StructEq(a, b) ==
    /\ a.t = b.t
    /\ CASE a.t = "number" ->
                /\ a.k = b.k
                /\ a.m = b.m
                /\ a.e = b.e
                /\ (a.neg = b.neg \/ (a.k = "finite" /\ a.m = 0))
         [] a.t = "array" ->
                /\ Len(a.items) = Len(b.items)
                /\ \A j \in 1..Len(a.items) : StructEq(a.items[j], b.items[j])
         [] a.t = "object" ->
                /\ Len(a.props) = Len(b.props)
                /\ \A j \in 1..Len(a.props) :
                       \E l \in 1..Len(b.props) :
                           /\ a.props[j].k = b.props[l].k
                           /\ StructEq(a.props[j].v, b.props[l].v)
         [] OTHER -> a = b

\* C1: in the strict variant a request whose `id` is absent or empty is
\* answered 400 {"error":"missing id"}, and that invocation never starts
\* a fetch: it is never suspended at one and no URL was ever fetched.
C1_StrictMissingId ==
    \A i \in Invocations :
        (variant[i] = "strict" /\ (IdAbsent(i) \/ IdEmpty(i))) =>
            /\ Done(i)
            /\ IsResponse(i, 400, Envelope("missing id"))
            /\ fetched[i] = <<>>
            /\ jsonCalls[i] = 0

C1_Witness ==
    \E i \in Invocations :
        /\ variant[i] = "strict"
        /\ IdAbsent(i)
        /\ Done(i)
        /\ outcome[i].status = 400

\* C2: in both variants, when the fetch is fulfilled with a status outside
\* 200..299 the handler answers 404 with its variant's envelope, whatever
\* the upstream status, and res.json() is never called.
C2_NonOkIs404 ==
    \A i \in Invocations :
        (Answered(i) /\ ~Is2xx(i)) =>
            /\ Done(i)
            /\ IsResponse(i, 404,
                          IF variant[i] = "strict" THEN Envelope("file not found")
                          ELSE Envelope("File not found"))
            /\ jsonCalls[i] = 0

C2_Witness ==
    \E i \in Invocations :
        /\ Answered(i)
        /\ res[i].status = 503
        /\ Done(i)
        /\ outcome[i].status = 404

\* C3: in both variants, for every valid JSON upstream body B answered with
\* a 2xx status, the handler returns 200 with a body which, decoded, is
\* structurally equal to B decoded.
C3_RoundTrip ==
    \A i \in Invocations :
        (Done(i) /\ Answered(i) /\ Is2xx(i) /\ res[i].body.valid) =>
            /\ outcome[i].kind = "response"
            /\ outcome[i].status = 200
            /\ outcome[i].body.valid
            /\ StructEq(JSONparse(outcome[i].body.doc), JSONparse(res[i].body.doc))

\* Whether every number literal of a JSON text is a double's worth.
RECURSIVE InDoubleRange(_)
InDoubleRange(x) ==
    CASE x.t = "num" -> ~Overflows(x.m, x.e)
      [] x.t = "arr" -> \A j \in 1..Len(x.items) : InDoubleRange(x.items[j])
      [] x.t = "obj" -> \A j \in 1..Len(x.members) : InDoubleRange(x.members[j].v)
      [] OTHER -> TRUE

\* What does hold of the round trip: it is exact for every body none of
\* whose numbers exceeds the largest double.
RoundTripInDoubleRange ==
    \A i \in Invocations :
        (Done(i) /\ Answered(i) /\ Is2xx(i) /\ res[i].body.valid
                 /\ InDoubleRange(res[i].body.doc)) =>
            /\ outcome[i].kind = "response"
            /\ outcome[i].status = 200
            /\ outcome[i].body.valid
            /\ StructEq(JSONparse(outcome[i].body.doc), JSONparse(res[i].body.doc))

\* C4: in the lenient variant a request without `id` fetches the URL of the
\* default id 197 and goes on to the fetch instead of answering an error.
C4_LenientDefault ==
    \A i \in Invocations :
        (variant[i] = "lenient" /\ IdAbsent(i)) =>
            /\ fileUrl[i] = Template("197")
            /\ fetched[i] = <<Template("197")>>
            /\ outcome[i].status # 400

C4_Witness ==
    \E i \in Invocations :
        /\ variant[i] = "lenient"
        /\ request[i] = <<>>
        /\ pc[i] = "fetch"

\* C5, as stated: every complete invocation has issued exactly one fetch,
\* whatever its `id` and whatever the upstream did.
C5_ExactlyOneFetch ==
    \A i \in Invocations : Done(i) => Len(fetched[i]) = 1

\* C5, amended: an invocation never issues more than one fetch; a complete
\* one has issued exactly one, except in the strict variant when `id` is
\* absent or empty, where it has issued none.
C5_OneFetchUnlessStrictMissing ==
    \A i \in Invocations :
        /\ Len(fetched[i]) <= 1
        /\ Done(i) =>
               Len(fetched[i]) =
                   IF variant[i] = "strict" /\ (IdAbsent(i) \/ IdEmpty(i))
                   THEN 0 ELSE 1

C5_Witness ==
    \E i \in Invocations :
        /\ variant[i] = "strict"
        /\ IdOf(i) = Str("197")
        /\ Done(i)
        /\ outcome[i].status = 200
        /\ Len(fetched[i]) = 1

\* C6: every invocation ends by returning a JSON Response with a status
\* code; none ends with its promise rejected.
C6_AllErrorsCaught ==
    \A i \in Invocations :
        Done(i) =>
            /\ outcome[i].kind = "response"
            /\ outcome[i].status \in {200, 400, 404, 500, 502}
            /\ outcome[i].contentType = "application/json"

\* C7, as stated: for every value of `id`, the empty string included, the
\* URL the handler resolves is the template with that value put in
\* verbatim.
C7_VerbatimForAllIds ==
    \A i \in Invocations :
        (IdOf(i).present /\ fetched[i] # <<>>) =>
            /\ fileUrl[i] = Template(IdOf(i).value)
            /\ fetched[i] = <<Template(IdOf(i).value)>>

\* C7, amended: for every non-empty value of `id` the URL resolved and
\* fetched is the template with that value put in verbatim; the empty
\* string is never put in: the strict variant resolves no URL for it and
\* the lenient variant resolves the URL of id 197.
C7_VerbatimForNonEmptyIds ==
    \A i \in Invocations :
        /\ (Started(i) /\ IdOf(i).present /\ IdOf(i).value # "") =>
               /\ fileUrl[i] = Template(IdOf(i).value)
               /\ fetched[i] = <<Template(IdOf(i).value)>>
        /\ (Started(i) /\ IdEmpty(i)) =>
               IF variant[i] = "strict"
               THEN fileUrl[i] = "" /\ fetched[i] = <<>>
               ELSE fetched[i] = <<Template("197")>>

C7_Witness ==
    \E i \in Invocations :
        /\ IdOf(i) = Str("../x?y=1#z")
        /\ fetched[i] =
               <<"https://china-auto-dashboard.pages.dev/api/koubei_summary_../x?y=1#z.json">>

\* C8: in both variants, when the fetch is fulfilled with a 2xx status and
\* a body that is not valid JSON, the invocation ends rejected (the
\* SyntaxError of res.json()) after its single fetch, and no Response of
\* any status is ever returned.
C8_MalformedBodyRejects ==
    \A i \in Invocations :
        (Answered(i) /\ Is2xx(i) /\ ~res[i].body.valid) =>
            /\ Len(fetched[i]) = 1
            /\ outcome[i].kind # "response"
            /\ Done(i) => outcome[i] = Rejected("SyntaxError")

C8_Witness ==
    \E i \in Invocations :
        /\ Answered(i)
        /\ res[i].status = 200
        /\ res[i].body = ErrorPage
        /\ Done(i)
        /\ outcome[i].kind = "rejected"

\* The outcome of one invocation run alone on query q, with upstream
\* result r.
Solo(v, q, r) ==
    LET got == searchParamsGet(q, "id") IN
    IF v = "strict" /\ (~got.present \/ got.value = "") THEN MissingId
    ELSE IF r.settled = "rejected" THEN Rejected("TypeError")
    ELSE IF r.status \notin 200..299
         THEN IF v = "strict" THEN StrictNotFound ELSE LenientNotFound
    ELSE IF ~r.body.valid THEN Rejected("SyntaxError")
    ELSE IF v = "strict" THEN StrictSuccess(JSONparse(r.body.doc))
    ELSE LenientSuccess(JSONparse(r.body.doc))

\* C9: with several invocations in flight, resumed in any order, the
\* outcome of each is the one its own request and its own upstream result
\* give when it runs alone, and until it ends it has no outcome.
C9_Independent ==
    \A i \in Invocations :
        IF Done(i) THEN outcome[i] = Solo(variant[i], request[i], res[i])
        ELSE outcome[i] = NoOutcome

C9_Witness ==
    \E i, j \in Invocations :
        /\ i # j
        /\ pc[j] = "json"
        /\ Done(i)
        /\ outcome[i].status = 200
        /\ variant[i] # variant[j]
        /\ res[i].body # res[j].body

\* C10: in the lenient variant `?id=` is treated like a missing `id`: the
\* URL fetched is that of id 197; and the lenient handler never answers
\* 400: the statuses it returns are 200 and 404.
C10_LenientEmptyIsDefault ==
    \A i \in Invocations :
        variant[i] = "lenient" =>
            /\ IdEmpty(i) =>
                   /\ fileUrl[i] = Template("197")
                   /\ fetched[i] = <<Template("197")>>
            /\ outcome[i].kind = "response" => outcome[i].status \in {200, 404}

C10_Witness ==
    \E i \in Invocations :
        /\ variant[i] = "lenient"
        /\ IdEmpty(i)
        /\ Done(i)
        /\ outcome[i].status = 200

====
